---- MODULE Spec2Model ----
(***************************************************************************)
(* The command loop of src/main.c (a Signaloid C0-microSD application) and *)
(* its weighted-mean computation, together with the host that shares the   *)
(* command register and the MOSI/MISO buffers with it.                     *)
(*                                                                         *)
(* 32-bit words and float32 values are kept as their four little-endian    *)
(* bytes <<b0, b1, b2, b3>> (the C0 core is a little-endian RISC-V), so    *)
(* that every width and offset of the code is visible.  The MOSI buffer is *)
(* a function from word index (byte offset \div 4) to words, the MISO      *)
(* buffer a function from byte offset to bytes.                            *)
(***************************************************************************)
EXTENDS Integers, Sequences, FiniteSets, TLC

(***************************************************************************)
(* Bounds of the model.                                                    *)
(***************************************************************************)
\* the largest number of samples the host stores in full
MaxSamples == 2
\* the host writes command values 0..MaxCommand (2 and above are unrecognized)
MaxCommand == 2

(***************************************************************************)
(* Program constants.                                                      *)
(***************************************************************************)
kCalculateNoCommand == 0
kCalculateWindow == 1

kSignaloidSoCStatusWaitingForCommand == "WaitingForCommand"
kSignaloidSoCStatusCalculating == "Calculating"
kSignaloidSoCStatusDone == "Done"
kSignaloidSoCStatusInvalidCommand == "InvalidCommand"

SizeofUint32 == 4
SizeofFloat == 4
SizeofDouble == 8
\* the number of values of a uint16_t
Uint16Range == 65536

(***************************************************************************)
(* Words and float32 values as bytes.                                      *)
(***************************************************************************)
U32Bytes(n) ==
  <<n % 256, (n \div 256) % 256, (n \div 65536) % 256, (n \div 16777216) % 256>>

\* the value a uint32_t word has after conversion to uint16_t
Uint16Of(w) == w[1] + 256 * w[2]

LedOnWord == <<255, 255, 255, 255>>
LedOffWord == <<0, 0, 0, 0>>

F32Zero == <<0, 0, 0, 0>>
F32One == <<0, 0, 128, 63>>
F32Two == <<0, 0, 0, 64>>
\* 1 + 2^-23: a value whose low mantissa bits are set
F32OneUlp == <<1, 0, 128, 63>>
F32NaN == <<0, 0, 192, 127>>

F32Sign(f) == f[4] \div 128
F32Exp(f) == (f[4] % 128) * 2 + (f[3] \div 128)
F32Man(f) == (f[3] % 128) * 65536 + f[2] * 256 + f[1]

\* the position of the highest set bit of a subnormal's mantissa (1 =< m < 2^23)
RECURSIVE HighBit(_)
HighBit(m) == IF m < 2 THEN 0 ELSE 1 + HighBit(m \div 2)

RECURSIVE Pow2(_)
Pow2(n) == IF n = 0 THEN 1 ELSE 2 * Pow2(n - 1)

\* the eight little-endian bytes of a binary64 with sign s, exponent field e
\* and the top 23 bits m of its mantissa (the low 29 bits are zero)
DoubleBytes(s, e, m) ==
  <<0, 0, 0, (m % 8) * 32, (m \div 8) % 256, (m \div 2048) % 256,
    (e % 16) * 16 + (m \div 524288), s * 128 + (e \div 16)>>

\* the float-to-double conversion of C: exact, rebiasing the exponent
FloatToDouble(f) ==
  LET s == F32Sign(f)
      e == F32Exp(f)
      m == F32Man(f)
  IN  IF e = 255 THEN DoubleBytes(s, 2047, m)
      ELSE IF e = 0 /\ m = 0 THEN DoubleBytes(s, 0, 0)
      ELSE IF e = 0
        THEN LET p == HighBit(m)
             IN  DoubleBytes(s, p + 874, (m * Pow2(23 - p)) % 8388608)
      ELSE DoubleBytes(s, e + 896, m)

(***************************************************************************)
(* The buffers.                                                            *)
(***************************************************************************)
\* MOSIBuffer + sizeof(uint32_t) on a double pointer: a byte offset
SampleByteOffset == SizeofUint32 * SizeofDouble
MOSIWords == (SampleByteOffset \div SizeofFloat) + MaxSamples
MISOBytes == SizeofUint32 + SizeofFloat

SampleValues == {F32One, F32Two}
\* what the numeric capability may answer where its result is not determined
UxHwOutcomes == {F32OneUlp, F32NaN}

\* the count float32 values stored from byte offset off on
SamplesAt(m, off, count) ==
  [i \in 1..count |-> m[(off \div SizeofFloat) + (i - 1)]]

\* the buffers the host prepares: a sample count at offset 0, the value g in
\* the words from offset 4 up to MaxSamples words, the values t from
\* SampleByteOffset on, zero elsewhere
HostCounts ==
  {U32Bytes(n) : n \in 0..MaxSamples} \cup {U32Bytes(Uint16Range + 1)}
HostInputs ==
  {[k \in 0..(MOSIWords - 1) |->
      IF k = 0 THEN c
      ELSE IF k >= SampleByteOffset \div SizeofFloat
        THEN t[k - (SampleByteOffset \div SizeofFloat) + 1]
      ELSE IF k <= MaxSamples THEN g
      ELSE F32Zero] :
    c \in HostCounts, g \in SampleValues, t \in [1..MaxSamples -> SampleValues]}

ZeroMISO == [k \in 0..(MISOBytes - 1) |-> 0]
ZeroMOSI == [k \in 0..(MOSIWords - 1) |-> F32Zero]

\* a store of the byte sequence bs at byte offset off
StoreBytes(m, off, bs) ==
  [k \in DOMAIN m |->
     IF k >= off /\ k < off + Len(bs) THEN bs[k - off + 1] ELSE m[k]]
LoadBytes(m, off, n) == [i \in 1..n |-> m[off + i - 1]]

Commands == 0..MaxCommand
CompletedStatus ==
  {kSignaloidSoCStatusDone, kSignaloidSoCStatusInvalidCommand}

VARIABLES
  pc,              \* the statement of main the device executes next
  mmioStatus,      \* *mmioStatus
  mmioSoCControl,  \* *mmioSoCControl, a word
  mmioCommand,     \* *mmioCommand
  MOSI,            \* the MOSI buffer (InputRegion), word index -> word
  MISO,            \* the MISO buffer (OutputRegion), byte offset -> byte
  cmdRead,         \* the value of the device's last read of *mmioCommand
  numSamples,      \* the local numSamples
  result,          \* the local result
  uxhw,            \* the numeric capability's answer where it is open
  call,            \* this iteration's getWeightedMean calls: the arguments
                   \* and the pairs handed to the combiner
  phase,           \* host: "free", "holding" a command, or "cleared" it
  issued,          \* host: the command value it holds or held
  misoAtIssue,     \* host: the MISO buffer as it was when it issued
  statusLog,       \* host: the status values seen since it issued
  observed,        \* host: the MISO buffer it read at the Done of its last
                   \* CalculateWindow over the present MOSI contents, if any
  unrecognizedSeen \* whether the command register has held an unrecognized
                   \* value during the present iteration of the loop

vars == <<pc, mmioStatus, mmioSoCControl, mmioCommand, MOSI, MISO, cmdRead,
          numSamples, result, uxhw, call, phase, issued, misoAtIssue,
          statusLog, observed, unrecognizedSeen>>


(***************************************************************************)
(* The numeric capability (uxhw.h) and getWeightedMean.  A float inside    *)
(* the computation is either a float32 [bits |-> w] or a term              *)
(* [op |-> .., of |-> ..] standing for the value of arithmetic that the    *)
(* model does not evaluate.                                                *)
(***************************************************************************)
Float(w) == [bits |-> w]
Term(o, a) == [op |-> o, of |-> a]
IsTerm(x) == "op" \in DOMAIN x

AllEqual(s) == \A i, j \in 1..Len(s) : s[i] = s[j]

UxHwFloatDistFromSamples(values, count) == SubSeq(values, 1, count)

UxHwFloatNthMoment(dist, n) ==
  IF Len(dist) = 0 THEN Float(F32NaN)
  ELSE IF n = 1
    THEN (IF AllEqual(dist) THEN Float(dist[1]) ELSE Term("mean", dist))
  ELSE (IF AllEqual(dist) THEN Float(F32Zero) ELSE Term("variance", dist))

\* x > 0.0f
GreaterThanZero(x) ==
  IF IsTerm(x) THEN x.op = "variance"
  ELSE /\ F32Sign(x.bits) = 0
       /\ F32Exp(x.bits) # 255 \/ F32Man(x.bits) = 0
       /\ F32Exp(x.bits) # 0 \/ F32Man(x.bits) # 0

UxHwFloatDistFromWeightedSamples(weightedSamples, count, open) ==
  IF count > 0 /\ \A i \in 1..count :
                     weightedSamples[i].sample = weightedSamples[1].sample
    THEN weightedSamples[1].sample
    ELSE open

checkedCalloc(count) ==
  [i \in 1..count |-> [sample |-> F32Zero, sampleWeight |-> Float(F32Zero)]]

\* SampleWeight without the test of the variance
SampleWeightNoFallback(v, mean, variance) ==
  Term("expf", <<v, mean, variance>>)

\* the weight of sample v (lines 30-34)
SampleWeight(v, mean, variance) ==
  IF GreaterThanZero(variance)
    THEN Term("expf", <<v, mean, variance>>)
    ELSE Float(F32One)

\* WeightedSamples filling the pairs from the last sample to the first
WeightedSamplesReversed(values, count) ==
  LET dist == UxHwFloatDistFromSamples(values, count)
      variance == UxHwFloatNthMoment(dist, 2)
      mean == UxHwFloatNthMoment(dist, 1)
      zeroed == checkedCalloc(count)
  IN  [i \in DOMAIN zeroed |->
         [sample |-> values[count + 1 - i],
          sampleWeight |->
            SampleWeight(values[count + 1 - i], mean, variance)]]

WeightedSamples(values, count) ==
  LET dist == UxHwFloatDistFromSamples(values, count)
      variance == UxHwFloatNthMoment(dist, 2)
      mean == UxHwFloatNthMoment(dist, 1)
      zeroed == checkedCalloc(count)
  IN  [i \in DOMAIN zeroed |->
         [sample |-> values[i],
          sampleWeight |-> SampleWeight(values[i], mean, variance)]]

getWeightedMean(values, count, open) ==
  UxHwFloatDistFromWeightedSamples(WeightedSamples(values, count), count, open)

(***************************************************************************)
(* The initial state: the registers and buffers at their reset value 0,    *)
(* the device about to execute line 65.                                    *)
(***************************************************************************)
\* a command value outside the enumeration
Unrecognized(c) == c \notin {kCalculateNoCommand, kCalculateWindow}

Init ==
  /\ pc = "SetWaitingForCommand"
  /\ mmioStatus = kSignaloidSoCStatusWaitingForCommand
  /\ mmioSoCControl = LedOffWord
  /\ mmioCommand = kCalculateNoCommand
  /\ MOSI = ZeroMOSI
  /\ MISO = ZeroMISO
  /\ cmdRead = kCalculateNoCommand
  /\ numSamples = 0
  /\ result = F32Zero
  /\ uxhw \in UxHwOutcomes
  /\ call = <<>>
  /\ phase = "free"
  /\ issued = kCalculateNoCommand
  /\ misoAtIssue = ZeroMISO
  /\ statusLog = <<>>
  /\ observed = <<>>
  /\ unrecognizedSeen = FALSE

\* the host's record of a status write while it follows a command
Logged(s) ==
  IF phase = "free" THEN <<>>
  ELSE IF statusLog[Len(statusLog)] = s THEN statusLog
  ELSE Append(statusLog, s)

(***************************************************************************)
(* The device: one action per access of main to a register or a buffer.    *)
(***************************************************************************)
\* line 65; the locals of the previous iteration are dead
SetWaitingForCommand ==
  /\ pc = "SetWaitingForCommand"
  /\ mmioStatus' = kSignaloidSoCStatusWaitingForCommand
  /\ statusLog' = Logged(kSignaloidSoCStatusWaitingForCommand)
  /\ numSamples' = 0
  /\ result' = F32Zero
  /\ call' = <<>>
  /\ unrecognizedSeen' = Unrecognized(mmioCommand)
  /\ pc' = "WaitForCommand"
  /\ UNCHANGED <<mmioSoCControl, mmioCommand, MOSI, MISO, cmdRead, uxhw,
                 phase, issued, misoAtIssue, observed>>

\* line 70: one read of the command register, and the loop's test of it
WaitForCommand ==
  /\ pc = "WaitForCommand"
  /\ cmdRead' = mmioCommand
  /\ pc' = IF mmioCommand = kCalculateNoCommand
             THEN "WaitForCommand" ELSE "SetCalculating"
  /\ UNCHANGED <<mmioStatus, mmioSoCControl, mmioCommand, MOSI, MISO,
                 numSamples, result, uxhw, call, phase, issued, misoAtIssue,
                 statusLog,
                 observed, unrecognizedSeen>>

\* line 75
SetCalculating ==
  /\ pc = "SetCalculating"
  /\ mmioStatus' = kSignaloidSoCStatusCalculating
  /\ statusLog' = Logged(kSignaloidSoCStatusCalculating)
  /\ pc' = "LedOn"
  /\ UNCHANGED <<mmioSoCControl, mmioCommand, MOSI, MISO, cmdRead,
                 numSamples, result, uxhw, call, phase, issued, misoAtIssue,
                 observed, unrecognizedSeen>>

\* LedOn leaving the indicator as it is
LedOnMissing ==
  /\ pc = "LedOn"
  /\ pc' = "DispatchCommand"
  /\ UNCHANGED <<mmioStatus, mmioSoCControl, mmioCommand, MOSI, MISO, cmdRead,
                 numSamples, result, uxhw, call, phase, issued, misoAtIssue,
                 statusLog,
                 observed, unrecognizedSeen>>

\* line 80
LedOn ==
  /\ pc = "LedOn"
  /\ mmioSoCControl' = LedOnWord
  /\ pc' = "DispatchCommand"
  /\ UNCHANGED <<mmioStatus, mmioCommand, MOSI, MISO, cmdRead, numSamples,
                 result, uxhw, call, phase, issued, misoAtIssue, statusLog,
                 observed, unrecognizedSeen>>

\* DispatchCommand taking the default case whatever it reads
DispatchCommandRejectsAll ==
  /\ pc = "DispatchCommand"
  /\ cmdRead' = mmioCommand
  /\ pc' = "SetInvalidCommand"
  /\ UNCHANGED <<mmioStatus, mmioSoCControl, mmioCommand, MOSI, MISO,
                 numSamples, result, uxhw, call, phase, issued, misoAtIssue,
                 statusLog, observed, unrecognizedSeen>>

\* DispatchCommand with every command taking the kCalculateWindow case
DispatchCommandNoDefault ==
  /\ pc = "DispatchCommand"
  /\ cmdRead' = mmioCommand
  /\ pc' = "ReadNumSamples"
  /\ UNCHANGED <<mmioStatus, mmioSoCControl, mmioCommand, MOSI, MISO,
                 numSamples, result, uxhw, call, phase, issued, misoAtIssue,
                 statusLog,
                 observed, unrecognizedSeen>>

\* line 83: the outer switch reads the command register again
DispatchCommand ==
  /\ pc = "DispatchCommand"
  /\ cmdRead' = mmioCommand
  /\ pc' = IF mmioCommand = kCalculateWindow
             THEN "ReadNumSamples" ELSE "SetInvalidCommand"
  /\ UNCHANGED <<mmioStatus, mmioSoCControl, mmioCommand, MOSI, MISO,
                 numSamples, result, uxhw, call, phase, issued, misoAtIssue,
                 statusLog,
                 observed, unrecognizedSeen>>

\* line 91: uint16_t numSamples = MOSIBufferUInt[0]
ReadNumSamples ==
  /\ pc = "ReadNumSamples"
  /\ numSamples' = Uint16Of(MOSI[0])
  /\ pc' = "DispatchCalculate"
  /\ UNCHANGED <<mmioStatus, mmioSoCControl, mmioCommand, MOSI, MISO,
                 cmdRead, result, uxhw, call, phase, issued, misoAtIssue,
                 statusLog,
                 observed, unrecognizedSeen>>

\* DispatchCalculate entering the CalculateWindow case whatever it reads
DispatchCalculateIgnoresRead ==
  /\ pc = "DispatchCalculate"
  /\ cmdRead' = mmioCommand
  /\ pc' = "CalculateWindow"
  /\ UNCHANGED <<mmioStatus, mmioSoCControl, mmioCommand, MOSI, MISO,
                 numSamples, result, uxhw, call, phase, issued, misoAtIssue,
                 statusLog,
                 observed, unrecognizedSeen>>

\* line 96: the inner switch reads the command register a third time
DispatchCalculate ==
  /\ pc = "DispatchCalculate"
  /\ cmdRead' = mmioCommand
  /\ pc' = IF mmioCommand = kCalculateWindow
             THEN "CalculateWindow" ELSE "WriteResultSize"
  /\ UNCHANGED <<mmioStatus, mmioSoCControl, mmioCommand, MOSI, MISO,
                 numSamples, result, uxhw, call, phase, issued, misoAtIssue,
                 statusLog,
                 observed, unrecognizedSeen>>

\* CalculateWindow with a result that depends on what the MISO buffer holds
CalculateWindowUsesStaleOutput ==
  /\ pc = "CalculateWindow"
  /\ LET values == SamplesAt(MOSI, SampleByteOffset, numSamples)
     IN  /\ result' = IF LoadBytes(MISO, 0, 4) = U32Bytes(SizeofFloat)
                        THEN F32Zero
                        ELSE getWeightedMean(values, numSamples, uxhw)
         /\ call' = Append(call, [values |-> values, count |-> numSamples,
                                  weighted |->
                                    WeightedSamples(values, numSamples)])
  /\ pc' = "CopyResult"
  /\ UNCHANGED <<mmioStatus, mmioSoCControl, mmioCommand, MOSI, MISO,
                 cmdRead, numSamples, uxhw, phase, issued, misoAtIssue,
                 statusLog, observed, unrecognizedSeen>>

\* CalculateWindow stopping the device on an empty batch
CalculateWindowHaltsOnEmpty ==
  /\ pc = "CalculateWindow"
  /\ numSamples > 0
  /\ LET values == SamplesAt(MOSI, SampleByteOffset, numSamples)
     IN  /\ result' = getWeightedMean(values, numSamples, uxhw)
         /\ call' = Append(call, [values |-> values, count |-> numSamples,
                                  weighted |->
                                    WeightedSamples(values, numSamples)])
  /\ pc' = "CopyResult"
  /\ UNCHANGED <<mmioStatus, mmioSoCControl, mmioCommand, MOSI, MISO,
                 cmdRead, numSamples, uxhw, phase, issued, misoAtIssue,
                 statusLog,
                 observed, unrecognizedSeen>>

\* line 102: getWeightedMean((MOSIBuffer + sizeof(uint32_t)), numSamples)
CalculateWindow ==
  /\ pc = "CalculateWindow"
  /\ LET values == SamplesAt(MOSI, SampleByteOffset, numSamples)
     IN  /\ result' = getWeightedMean(values, numSamples, uxhw)
         /\ call' = Append(call, [values |-> values, count |-> numSamples,
                                  weighted |->
                                    WeightedSamples(values, numSamples)])
  /\ pc' = "CopyResult"
  /\ UNCHANGED <<mmioStatus, mmioSoCControl, mmioCommand, MOSI, MISO,
                 cmdRead, numSamples, uxhw, phase, issued, misoAtIssue,
                 statusLog,
                 observed, unrecognizedSeen>>

\* line 104: MISOBuffer[0] = result, a store of a double at offset 0
CopyResult ==
  /\ pc = "CopyResult"
  /\ MISO' = StoreBytes(MISO, 0, FloatToDouble(result))
  /\ pc' = "WriteResultSize"
  /\ UNCHANGED <<mmioStatus, mmioSoCControl, mmioCommand, MOSI, cmdRead,
                 numSamples, result, uxhw, call, phase, issued, misoAtIssue,
                 statusLog,
                 observed, unrecognizedSeen>>

\* WriteResultSize with the size of the double that line 104 stores
WriteResultSizeOfDouble ==
  /\ pc = "WriteResultSize"
  /\ MISO' = StoreBytes(MISO, 0, U32Bytes(SizeofDouble))
  /\ pc' = "SetDone"
  /\ UNCHANGED <<mmioStatus, mmioSoCControl, mmioCommand, MOSI, cmdRead,
                 numSamples, result, uxhw, call, phase, issued, misoAtIssue,
                 statusLog,
                 observed, unrecognizedSeen>>

\* lines 81 and 112: *resultBufferSize = resultSize
WriteResultSize ==
  /\ pc = "WriteResultSize"
  /\ MISO' = StoreBytes(MISO, 0, U32Bytes(SizeofFloat))
  /\ pc' = "SetDone"
  /\ UNCHANGED <<mmioStatus, mmioSoCControl, mmioCommand, MOSI, cmdRead,
                 numSamples, result, uxhw, call, phase, issued, misoAtIssue,
                 statusLog,
                 observed, unrecognizedSeen>>

\* SetDone reporting the wrong status
SetDoneWrongStatus ==
  /\ pc = "SetDone"
  /\ mmioStatus' = kSignaloidSoCStatusInvalidCommand
  /\ statusLog' = Logged(kSignaloidSoCStatusInvalidCommand)
  /\ pc' = "LedOff"
  /\ UNCHANGED <<mmioSoCControl, mmioCommand, MOSI, MISO, cmdRead,
                 numSamples, result, uxhw, call, phase, issued, misoAtIssue,
                 observed, unrecognizedSeen>>

\* line 117
SetDone ==
  /\ pc = "SetDone"
  /\ mmioStatus' = kSignaloidSoCStatusDone
  /\ statusLog' = Logged(kSignaloidSoCStatusDone)
  /\ pc' = "LedOff"
  /\ UNCHANGED <<mmioSoCControl, mmioCommand, MOSI, MISO, cmdRead,
                 numSamples, result, uxhw, call, phase, issued, misoAtIssue,
                 observed, unrecognizedSeen>>

\* SetInvalidCommand with the result size written on this path too
SetInvalidCommandWritesSize ==
  /\ pc = "SetInvalidCommand"
  /\ mmioStatus' = kSignaloidSoCStatusInvalidCommand
  /\ statusLog' = Logged(kSignaloidSoCStatusInvalidCommand)
  /\ MISO' = StoreBytes(MISO, 0, U32Bytes(SizeofFloat))
  /\ pc' = "LedOff"
  /\ UNCHANGED <<mmioSoCControl, mmioCommand, MOSI, cmdRead, numSamples,
                 result, uxhw, call, phase, issued, misoAtIssue,
                 observed, unrecognizedSeen>>

\* line 121
SetInvalidCommand ==
  /\ pc = "SetInvalidCommand"
  /\ mmioStatus' = kSignaloidSoCStatusInvalidCommand
  /\ statusLog' = Logged(kSignaloidSoCStatusInvalidCommand)
  /\ pc' = "LedOff"
  /\ UNCHANGED <<mmioSoCControl, mmioCommand, MOSI, MISO, cmdRead,
                 numSamples, result, uxhw, call, phase, issued, misoAtIssue,
                 observed, unrecognizedSeen>>

\* LedOff acknowledging the command by clearing the command register
LedOffClearsCommand ==
  /\ pc = "LedOff"
  /\ mmioSoCControl' = LedOffWord
  /\ mmioCommand' = kCalculateNoCommand
  /\ pc' = "WaitForClear"
  /\ UNCHANGED <<mmioStatus, MOSI, MISO, cmdRead, numSamples, result, uxhw,
                 call, phase, issued, misoAtIssue, statusLog,
                 observed, unrecognizedSeen>>

\* LedOff with the result size written after the switch
LedOffWritesSize ==
  /\ pc = "LedOff"
  /\ mmioSoCControl' = LedOffWord
  /\ MISO' = StoreBytes(MISO, 0, U32Bytes(SizeofFloat))
  /\ pc' = "WaitForClear"
  /\ UNCHANGED <<mmioStatus, mmioCommand, MOSI, cmdRead, numSamples, result,
                 uxhw, call, phase, issued, misoAtIssue, statusLog,
                 observed, unrecognizedSeen>>

\* LedOff leaving the indicator as it is
LedOffMissing ==
  /\ pc = "LedOff"
  /\ pc' = "WaitForClear"
  /\ UNCHANGED <<mmioStatus, mmioSoCControl, mmioCommand, MOSI, MISO, cmdRead,
                 numSamples, result, uxhw, call, phase, issued, misoAtIssue,
                 statusLog,
                 observed, unrecognizedSeen>>

\* line 128
LedOff ==
  /\ pc = "LedOff"
  /\ mmioSoCControl' = LedOffWord
  /\ pc' = "WaitForClear"
  /\ UNCHANGED <<mmioStatus, mmioCommand, MOSI, MISO, cmdRead, numSamples,
                 result, uxhw, call, phase, issued, misoAtIssue, statusLog,
                 observed, unrecognizedSeen>>

\* WaitForClear leaving the loop whatever it read
WaitForClearNoWait ==
  /\ pc = "WaitForClear"
  /\ cmdRead' = mmioCommand
  /\ pc' = "SetWaitingForCommand"
  /\ UNCHANGED <<mmioStatus, mmioSoCControl, mmioCommand, MOSI, MISO,
                 numSamples, result, uxhw, call, phase, issued, misoAtIssue,
                 statusLog,
                 observed, unrecognizedSeen>>

\* WaitForClear with the loop's test inverted
WaitForClearInverted ==
  /\ pc = "WaitForClear"
  /\ cmdRead' = mmioCommand
  /\ pc' = IF mmioCommand = kCalculateNoCommand
             THEN "WaitForClear" ELSE "SetWaitingForCommand"
  /\ UNCHANGED <<mmioStatus, mmioSoCControl, mmioCommand, MOSI, MISO,
                 numSamples, result, uxhw, call, phase, issued, misoAtIssue,
                 statusLog,
                 observed, unrecognizedSeen>>

\* line 133: one read of the command register, and the loop's test of it
WaitForClear ==
  /\ pc = "WaitForClear"
  /\ cmdRead' = mmioCommand
  /\ pc' = IF mmioCommand # kCalculateNoCommand
             THEN "WaitForClear" ELSE "SetWaitingForCommand"
  /\ UNCHANGED <<mmioStatus, mmioSoCControl, mmioCommand, MOSI, MISO,
                 numSamples, result, uxhw, call, phase, issued, misoAtIssue,
                 statusLog,
                 observed, unrecognizedSeen>>

Device ==
  \/ SetWaitingForCommand
  \/ WaitForCommand
  \/ SetCalculating
  \/ LedOn
  \/ DispatchCommand
  \/ ReadNumSamples
  \/ DispatchCalculate
  \/ CalculateWindow
  \/ CopyResult
  \/ WriteResultSize
  \/ SetDone
  \/ SetInvalidCommand
  \/ LedOff
  \/ WaitForClear

(***************************************************************************)
(* The host.  It may write the command register at any time (phase         *)
(* "free"), or issue a command while the status register reads             *)
(* WaitingForCommand and hold it until the device reports completion       *)
(* ("holding"), then clear it ("cleared").  It prepares the MOSI buffer    *)
(* while the command register is clear and the status register reads       *)
(* WaitingForCommand.                                                      *)
(***************************************************************************)
HostWriteCommand(c) ==
  /\ phase # "holding"
  /\ mmioCommand' = c
  /\ phase' = "free"
  /\ issued' = kCalculateNoCommand
  /\ misoAtIssue' = ZeroMISO
  /\ statusLog' = <<>>
  /\ observed' = <<>>
  /\ unrecognizedSeen' = (unrecognizedSeen \/ Unrecognized(c))
  /\ UNCHANGED <<pc, mmioStatus, mmioSoCControl, MOSI, MISO, cmdRead,
                 numSamples, result, uxhw, call>>

HostIssueAndHold(c) ==
  /\ phase # "holding"
  /\ c # kCalculateNoCommand
  /\ mmioStatus = kSignaloidSoCStatusWaitingForCommand
  /\ mmioCommand' = c
  /\ phase' = "holding"
  /\ issued' = c
  /\ misoAtIssue' = MISO
  /\ statusLog' = <<mmioStatus>>
  /\ unrecognizedSeen' = (unrecognizedSeen \/ Unrecognized(c))
  /\ UNCHANGED <<pc, mmioStatus, mmioSoCControl, MOSI, MISO, cmdRead,
                 numSamples, result, uxhw, call, observed>>

\* the host reads the MISO buffer at Done before it clears the command
HostClear ==
  /\ phase = "holding"
  /\ mmioStatus \in CompletedStatus
  /\ mmioCommand' = kCalculateNoCommand
  /\ phase' = "cleared"
  /\ observed' = IF /\ issued = kCalculateWindow
                    /\ mmioStatus = kSignaloidSoCStatusDone
                   THEN <<MISO>> ELSE observed
  /\ UNCHANGED <<pc, mmioStatus, mmioSoCControl, MOSI, MISO, cmdRead,
                 numSamples, result, uxhw, call, issued, misoAtIssue,
                 statusLog, unrecognizedSeen>>

HostWriteInput(m) ==
  /\ phase # "holding"
  /\ mmioCommand = kCalculateNoCommand
  /\ mmioStatus = kSignaloidSoCStatusWaitingForCommand
  /\ MOSI' = m
  /\ observed' = IF m = MOSI THEN observed ELSE <<>>
  /\ UNCHANGED <<pc, mmioStatus, mmioSoCControl, mmioCommand, MISO, cmdRead,
                 numSamples, result, uxhw, call, phase, issued, misoAtIssue,
                 statusLog, unrecognizedSeen>>

Host ==
  \/ \E c \in Commands : HostWriteCommand(c)
  \/ \E c \in Commands : HostIssueAndHold(c)
  \/ HostClear
  \/ \E m \in HostInputs : HostWriteInput(m)

Next == Device \/ Host

Spec == Init /\ [][Next]_vars

\* the device's loop never stops executing
LiveSpec == Spec /\ WF_vars(Device)

(***************************************************************************)
(* Properties.                                                             *)
(***************************************************************************)
IsPrefix(s, t) == Len(s) <= Len(t) /\ SubSeq(t, 1, Len(s)) = s

CalculatePath ==
  <<kSignaloidSoCStatusWaitingForCommand, kSignaloidSoCStatusCalculating,
    kSignaloidSoCStatusDone, kSignaloidSoCStatusWaitingForCommand>>

InvalidPath ==
  <<kSignaloidSoCStatusWaitingForCommand, kSignaloidSoCStatusCalculating,
    kSignaloidSoCStatusInvalidCommand, kSignaloidSoCStatusWaitingForCommand>>

\* C1: when the host writes CalculateWindow while the status register reads
\* WaitingForCommand and holds it, the status values the device writes are
\* WaitingForCommand, Calculating, Done in that order with nothing in
\* between, and Done is eventually written (the device loop weakly fair).
CalculateCycleCompletes ==
  /\ [](phase # "free" /\ issued = kCalculateWindow
          => IsPrefix(statusLog, CalculatePath))
  /\ (phase = "holding" /\ issued = kCalculateWindow)
       ~> (/\ phase = "holding"
           /\ mmioStatus = kSignaloidSoCStatusDone
           /\ statusLog = SubSeq(CalculatePath, 1, 3))

CalculateCycleCompleted ==
  /\ phase = "holding"
  /\ issued = kCalculateWindow
  /\ mmioStatus = kSignaloidSoCStatusDone
  /\ statusLog = SubSeq(CalculatePath, 1, 3)
  /\ Len(call) = 1

\* C2 as stated: whenever the indicator is active the status register is
\* Calculating.
IndicatorOnlyWhileCalculating ==
  mmioSoCControl = LedOnWord => mmioStatus = kSignaloidSoCStatusCalculating

\* C2 as amended: whenever the indicator is active the status register is
\* Calculating, or it is Done or InvalidCommand and the device's next step is
\* the write of line 128 that deactivates the indicator; the indicator is
\* never active while the status register is WaitingForCommand or while the
\* device waits for the command to be cleared.
IndicatorActiveUntilLedOff ==
  /\ mmioSoCControl \in {LedOnWord, LedOffWord}
  /\ mmioSoCControl = LedOnWord =>
       \/ mmioStatus = kSignaloidSoCStatusCalculating
       \/ mmioStatus \in CompletedStatus /\ pc = "LedOff"
  /\ pc \in {"WaitForClear", "SetWaitingForCommand", "WaitForCommand"} =>
       mmioSoCControl = LedOffWord

IndicatorActiveAtDone ==
  /\ mmioSoCControl = LedOnWord
  /\ mmioStatus = kSignaloidSoCStatusDone
  /\ pc = "LedOff"

\* C3: when the host writes an unrecognized command value while the status
\* register reads WaitingForCommand and holds it, the device eventually sets
\* the status register to InvalidCommand, and during that cycle it never sets
\* it to Done and never calls getWeightedMean.
InvalidCommandReported ==
  /\ [](phase # "free" /\ Unrecognized(issued)
          => /\ IsPrefix(statusLog, InvalidPath)
             /\ mmioStatus # kSignaloidSoCStatusDone
             /\ call = <<>>)
  /\ (phase = "holding" /\ Unrecognized(issued))
       ~> (phase = "holding"
           /\ mmioStatus = kSignaloidSoCStatusInvalidCommand)

InvalidCommandSeen ==
  /\ phase = "holding"
  /\ Unrecognized(issued)
  /\ mmioStatus = kSignaloidSoCStatusInvalidCommand
  /\ pc = "WaitForClear"

\* C4 as stated: during a cycle of an unrecognized command the indicator is
\* inactive in every state from the issue until the device is idle again.
IndicatorUntouchedOnInvalid ==
  phase # "free" /\ Unrecognized(issued) => mmioSoCControl = LedOffWord

\* C4 as amended: during a cycle of an unrecognized command the device
\* activates the indicator at line 80, before it dispatches, and deactivates
\* it at line 128, after it has set InvalidCommand; the indicator is inactive
\* in every other state from the issue until the device is idle again.
IndicatorWindowOnInvalid ==
  phase # "free" /\ Unrecognized(issued) =>
    (mmioSoCControl = LedOnWord
       <=> pc \in {"DispatchCommand", "SetInvalidCommand", "LedOff"})

IndicatorActiveOnInvalid ==
  /\ phase = "holding"
  /\ Unrecognized(issued)
  /\ mmioStatus = kSignaloidSoCStatusInvalidCommand
  /\ mmioSoCControl = LedOnWord

\* C5: during a cycle of an unrecognized command every byte of the MISO
\* buffer keeps the value it had when the command was issued, up to and
\* including the device's return to idle.
OutputUntouchedOnInvalid ==
  phase # "free" /\ Unrecognized(issued) => MISO = misoAtIssue

OutputKeptAfterInvalid ==
  /\ phase = "cleared"
  /\ Unrecognized(issued)
  /\ statusLog = InvalidPath
  /\ pc = "WaitForCommand"
  /\ MISO # ZeroMISO
  /\ MISO = misoAtIssue

\* C6: whenever the status register is Done in a cycle in which the host
\* holds CalculateWindow, bytes 4..7 of the MISO buffer are the float32 bytes
\* of the value getWeightedMean returned in that cycle (stated here for the
\* cycles in which it was called with at least one sample).
ResultPayloadAtOffset4 ==
  phase = "holding" /\ issued = kCalculateWindow
    /\ mmioStatus = kSignaloidSoCStatusDone
    /\ Len(call) = 1 /\ call[1].count > 0
    => LoadBytes(MISO, SizeofUint32, SizeofFloat) = result

SamplesReadFromOffset4 ==
  phase = "holding" /\ issued = kCalculateWindow /\ Len(call) = 1
    => call[1].values = SamplesAt(MOSI, SizeofUint32, call[1].count)

\* C9: in a cycle in which the host holds CalculateWindow, the count handed
\* to getWeightedMean is the 32-bit value stored at offset 0 of the MOSI
\* buffer.
SampleCountHonoured ==
  phase = "holding" /\ issued = kCalculateWindow /\ Len(call) = 1
    => U32Bytes(call[1].count) = MOSI[0]

\* C10: while the status register is Done or InvalidCommand the device
\* changes it only to WaitingForCommand, and only after its read of the
\* command register at line 133 returned NoCommand; it does not leave that
\* loop while the command register is not NoCommand, and it does not
\* activate the indicator again.
CompletionHeldUntilClear ==
  [][(mmioStatus \in CompletedStatus) =>
       ((mmioStatus' # mmioStatus =>
            (/\ mmioStatus' = kSignaloidSoCStatusWaitingForCommand
             /\ pc = "SetWaitingForCommand"
             /\ cmdRead = kCalculateNoCommand))
        /\ (pc = "WaitForClear" /\ mmioCommand # kCalculateNoCommand =>
              pc' = "WaitForClear")
        /\ (mmioSoCControl = LedOffWord => mmioSoCControl' = LedOffWord))]_vars

\* the device has seen the register cleared and is about to return to idle,
\* and the host has written a command again in the meantime
ClearObservedAfterCompletion ==
  /\ pc = "SetWaitingForCommand"
  /\ mmioStatus \in CompletedStatus
  /\ cmdRead = kCalculateNoCommand
  /\ mmioCommand # kCalculateNoCommand
  /\ mmioSoCControl = LedOffWord

\* C11: in every reachable state some step of the device is enabled, and a
\* device idle with a command in the register can start a cycle; once the
\* status register is Done or InvalidCommand and the command register is
\* NoCommand, the device eventually sets the status register back to
\* WaitingForCommand and polls for the next command, unless the host writes
\* a command again first (the device loop weakly fair).
LoopAlwaysRecovers ==
  /\ [](ENABLED Device)
  /\ [](pc = "WaitForCommand" /\ mmioCommand # kCalculateNoCommand
          => ENABLED (WaitForCommand /\ pc' = "SetCalculating"))
  /\ (mmioStatus \in CompletedStatus /\ mmioCommand = kCalculateNoCommand)
       ~> (\/ mmioCommand # kCalculateNoCommand
           \/ /\ mmioStatus = kSignaloidSoCStatusWaitingForCommand
              /\ pc = "WaitForCommand")

RecoveredAfterClear ==
  /\ phase = "cleared"
  /\ mmioCommand = kCalculateNoCommand
  /\ mmioStatus = kSignaloidSoCStatusWaitingForCommand
  /\ pc = "WaitForCommand"
  /\ Len(statusLog) = 4

\* C13: when getWeightedMean is called with at least one sample and all
\* samples equal to k, every pair handed to the combiner has weight 1 and
\* the result is k.
ConstantInputGivesConstant ==
  \A n \in 1..Len(call) :
    call[n].count > 0 /\ AllEqual(call[n].values) =>
      /\ \A i \in 1..call[n].count :
           call[n].weighted[i].sampleWeight = Float(F32One)
      /\ result = call[n].values[1]

ConstantBatchComputed ==
  /\ Len(call) = 1
  /\ call[1].count = 2
  /\ call[1].values = <<F32Two, F32Two>>
  /\ result = F32Two
  /\ pc = "CopyResult"

\* C16: the combiner receives count pairs, pair i carrying samples[i]; every
\* weight is 1 when the variance is not greater than 0, and otherwise the
\* weight of pair i is the kernel of samples[i], the fitted mean and the
\* fitted variance, so that equal samples of a batch get equal weights.
WeightsAssignedPerSample ==
  \A n \in 1..Len(call) :
    LET c == call[n]
        dist == UxHwFloatDistFromSamples(c.values, c.count)
        variance == UxHwFloatNthMoment(dist, 2)
        mean == UxHwFloatNthMoment(dist, 1)
    IN  /\ DOMAIN c.weighted = 1..c.count
        /\ \A i \in 1..c.count :
             /\ c.weighted[i].sample = c.values[i]
             /\ ~GreaterThanZero(variance) =>
                  c.weighted[i].sampleWeight = Float(F32One)
             /\ GreaterThanZero(variance) =>
                  c.weighted[i].sampleWeight =
                    Term("expf", <<c.values[i], mean, variance>>)
             /\ \A j \in 1..c.count :
                  c.values[i] = c.values[j] =>
                    c.weighted[i].sampleWeight = c.weighted[j].sampleWeight

KernelWeightsComputed ==
  /\ Len(call) = 1
  /\ call[1].count = 2
  /\ call[1].values[1] # call[1].values[2]
  /\ IsTerm(call[1].weighted[1].sampleWeight)
  /\ call[1].weighted[2].sample = call[1].values[2]
  /\ pc = "CopyResult"

\* C14: no step of the device changes the command register or the MOSI
\* buffer.
HostStateReadOnly ==
  [][Device => UNCHANGED <<mmioCommand, MOSI>>]_vars

HostStateKeptThroughCycle ==
  /\ phase = "holding"
  /\ mmioStatus = kSignaloidSoCStatusDone
  /\ pc = "WaitForClear"
  /\ mmioCommand = kCalculateWindow
  /\ MOSI # ZeroMOSI
  /\ Len(call) = 1

OutputStableOnceDone ==
  /\ [][(MISO' # MISO) =>
          (/\ mmioStatus = kSignaloidSoCStatusCalculating
           /\ mmioStatus' = kSignaloidSoCStatusCalculating)]_vars
  /\ [](phase = "holding" /\ issued = kCalculateWindow
          /\ mmioStatus = kSignaloidSoCStatusDone
        => Len(call) = 1)

OutputWrittenBeforeDone ==
  /\ phase = "holding"
  /\ issued = kCalculateWindow
  /\ mmioStatus = kSignaloidSoCStatusDone
  /\ pc = "LedOff"
  /\ MISO # misoAtIssue
  /\ Len(call) = 1

\* C18 as stated: whenever the status register is Done, getWeightedMean has
\* been called in this iteration and its result is in the MISO buffer.
DoneImpliesFreshResult ==
  mmioStatus = kSignaloidSoCStatusDone =>
    /\ Len(call) = 1
    /\ LoadBytes(MISO, 4, 4) = SubSeq(FloatToDouble(result), 5, 8)

\* C18 amended: when Done has just been written, getWeightedMean has been
\* called in this iteration exactly if the inner dispatch read of the
\* command register returned CalculateWindow, and then bytes 4..7 of the
\* MISO buffer come from its result; the result size is written either way.
\* For a host that holds CalculateWindow from issue to Done the call is
\* always made.
DoneFreshIffInnerReadCalculate ==
  /\ (pc = "LedOff" /\ mmioStatus = kSignaloidSoCStatusDone) =>
       /\ (Len(call) = 1) <=> (cmdRead = kCalculateWindow)
       /\ Len(call) <= 1
       /\ (Len(call) = 1) =>
            LoadBytes(MISO, 4, 4) = SubSeq(FloatToDouble(result), 5, 8)
       /\ LoadBytes(MISO, 0, 4) = U32Bytes(SizeofFloat)
  /\ (phase = "holding" /\ issued = kCalculateWindow
        /\ mmioStatus = kSignaloidSoCStatusDone) =>
       /\ Len(call) = 1
       /\ LoadBytes(MISO, 4, 4) = SubSeq(FloatToDouble(result), 5, 8)

DoneWithoutComputation ==
  /\ pc = "LedOff"
  /\ mmioStatus = kSignaloidSoCStatusDone
  /\ cmdRead # kCalculateWindow
  /\ Len(call) = 0
  /\ LoadBytes(MISO, 0, 4) = U32Bytes(SizeofFloat)

\* C12: when a host that holds CalculateWindow sees Done, and it has read
\* the MISO buffer at the Done of an earlier CalculateWindow cycle that it
\* cleared, with the MOSI buffer unchanged since, the MISO buffer equals
\* what it read then (the numeric capability answers the same throughout).
CycleIdempotent ==
  (/\ phase = "holding"
   /\ issued = kCalculateWindow
   /\ mmioStatus = kSignaloidSoCStatusDone
   /\ Len(observed) = 1)
  => MISO = observed[1]

SecondCycleDone ==
  /\ phase = "holding"
  /\ issued = kCalculateWindow
  /\ mmioStatus = kSignaloidSoCStatusDone
  /\ pc = "LedOff"
  /\ Len(observed) = 1
  /\ Len(call) = 1
  /\ call[1].count = 2
  /\ MISO = observed[1]

\* C19 as stated: the status register is InvalidCommand only in an iteration
\* during which the command register has held an unrecognized value.
InvalidOnlyAfterUnrecognized ==
  mmioStatus = kSignaloidSoCStatusInvalidCommand => unrecognizedSeen

\* C19 amended: the device takes the InvalidCommand branch exactly when the
\* dispatch read of the command register returns a value other than
\* CalculateWindow, NoCommand included; for a host that holds its command
\* until completion, InvalidCommand is set only for an unrecognized value.
InvalidIffDispatchReadNotCalculate ==
  /\ pc = "SetInvalidCommand" => cmdRead # kCalculateWindow
  /\ pc = "ReadNumSamples" => cmdRead = kCalculateWindow
  /\ (pc = "LedOff" /\ mmioStatus = kSignaloidSoCStatusInvalidCommand)
       => cmdRead # kCalculateWindow
  /\ (phase # "free" /\ mmioStatus = kSignaloidSoCStatusInvalidCommand)
       => Unrecognized(issued)

InvalidAfterEarlyClear ==
  /\ pc = "LedOff"
  /\ mmioStatus = kSignaloidSoCStatusInvalidCommand
  /\ cmdRead = kCalculateNoCommand
  /\ ~unrecognizedSeen

====
